---- MODULE Spec2Model ----
(***************************************************************************)
(* Media Performance Dashboard (check2.py): a Streamlit script that loads  *)
(* videos.xlsx, filters, sorts and paginates the rows, shows a summary of  *)
(* the loaded table and renders one card per row of the current page.      *)
(* The script is rerun from its first line whenever a sidebar widget or    *)
(* the page input changes; the two st.cache_data caches outlive the runs.  *)
(***************************************************************************)
EXTENDS Integers, Sequences, FiniteSets, TLC

VARIABLES
  rawTable,          \* the rows of videos.xlsx, as read by pd.read_excel
  df,                \* load_data()'s result in the current run
  selected_assets,   \* sidebar multiselect 'Asset Type'
  selected_perf,     \* sidebar multiselect 'Performance'
  sort_by,           \* sidebar selectbox 'Sort By'
  order,             \* sidebar radio 'Order'
  df_filtered,       \* filtered (and sorted) frame of the current run
  summary,           \* header count, averages and distribution shown (or Unset)
  pages,             \* Some(number of pages), Unset before line 136 is reached
  page,              \* Some(current page), Unset before line 137 is reached
  subset,            \* the rows of the current page
  pc,                \* "start" | "render" | "done" | "stopped"
  card,              \* position in subset of the next card to render
  cards,             \* the cards rendered so far in this run
  title_cache,       \* st.cache_data store of get_youtube_title
  image_cache,       \* st.cache_data store of is_image_url
  fetches,           \* url -> number of requests.get calls made for it
  probed,            \* urls for which requests.head was called
  title_log,         \* <<url, string>> pairs get_youtube_title has returned
  title_hits,        \* urls answered from title_cache at least once
  last_title         \* Some(the last executed get_youtube_title body), or Unset

vars == <<rawTable, df, selected_assets, selected_perf, sort_by, order,
          df_filtered, summary, pages, page, subset, pc, card, cards,
          title_cache, image_cache, fetches, probed, title_log, title_hits,
          last_title>>

\* An optional value: a name the script has not bound yet, or its value.
Unset == <<>>
Some(v) == <<v>>

(***************************************************************************)
(* Bounds of the model.                                                    *)
(***************************************************************************)
\* Number of rows of the longest sheet.
MaxRows == 27

\* Page size (line 134).
per_page == 10

(***************************************************************************)
(* Python strings.                                                         *)
(***************************************************************************)
\* str.startswith
StartsWith(s, p) == Len(s) >= Len(p) /\ SubSeq(s, 1, Len(p)) = p

\* the `in` operator on strings
Contains(s, p) ==
  \E k \in 1..(Len(s) - Len(p) + 1) : SubSeq(s, k, k + Len(p) - 1) = p

\* url.split('/')[-1]: what follows the last '/', the whole string without one
LastSegment(s) ==
  LET slashes == {k \in 1..Len(s) : SubSeq(s, k, k) = "/"}
  IN IF slashes = {} THEN s
     ELSE LET last == CHOOSE k \in slashes : \A m \in slashes : m <= k
          IN SubSeq(s, last + 1, Len(s))

\* str.replace(old, ''): every occurrence of old removed, left to right
RECURSIVE Remove(_, _)
Remove(s, old) ==
  IF Len(s) < Len(old) \/ Len(old) = 0 THEN s
  ELSE IF SubSeq(s, 1, Len(old)) = old
       THEN Remove(SubSeq(s, Len(old) + 1, Len(s)), old)
       ELSE SubSeq(s, 1, 1) \o Remove(SubSeq(s, 2, Len(s)), old)

\* str.strip(): leading and trailing blanks removed
RECURSIVE Strip(_)
Strip(s) ==
  IF Len(s) = 0 THEN s
  ELSE IF SubSeq(s, 1, 1) = " " THEN Strip(SubSeq(s, 2, Len(s)))
  ELSE IF SubSeq(s, Len(s), Len(s)) = " " THEN Strip(SubSeq(s, 1, Len(s) - 1))
  ELSE s

(***************************************************************************)
(* Numbers: a float is a fraction n/d of naturals, inf or NaN.             *)
(***************************************************************************)
RECURSIVE GCD(_, _)
GCD(a, b) == IF b = 0 THEN a ELSE GCD(b, a % b)

Frac(n, d) == LET g == GCD(n, d) IN [k |-> "num", n |-> n \div g, d |-> d \div g]
Num(n) == [k |-> "num", n |-> n, d |-> 1]
NaN == [k |-> "nan", n |-> 0, d |-> 1]
Inf == [k |-> "inf", n |-> 0, d |-> 1]

\* float division of pandas: x/0 is inf, 0/0 is NaN, nothing raises
Div(a, b) ==
  IF a.k = "nan" \/ b.k = "nan" THEN NaN
  ELSE IF a.k = "inf" THEN (IF b.k = "inf" THEN NaN ELSE Inf)
  ELSE IF b.k = "inf" THEN Num(0)
  ELSE IF b.n = 0 THEN (IF a.n = 0 THEN NaN ELSE Inf)
  ELSE Frac(a.n * b.d, a.d * b.n)

Add(a, b) ==
  IF a.k = "nan" \/ b.k = "nan" THEN NaN
  ELSE IF a.k = "inf" \/ b.k = "inf" THEN Inf
  ELSE Frac(a.n * b.d + b.n * a.d, a.d * b.d)

\* a < b on finite numbers
Less(a, b) == a.n * b.d < b.n * a.d

(***************************************************************************)
(* Spreadsheet cells and rows.  A metric cell holds a number, a string or  *)
(* nothing; 'Asset', 'Asset type' and 'Performance' hold strings.          *)
(***************************************************************************)
IntCell(n) == [t |-> "int", n |-> n, s |-> ""]
StrCell(s) == [t |-> "str", n |-> 0, s |-> s]
Blank == [t |-> "blank", n |-> 0, s |-> ""]

DigitValue(c) ==
  CASE c = "0" -> 0 [] c = "1" -> 1 [] c = "2" -> 2 [] c = "3" -> 3
    [] c = "4" -> 4 [] c = "5" -> 5 [] c = "6" -> 6 [] c = "7" -> 7
    [] c = "8" -> 8 [] c = "9" -> 9 [] OTHER -> -1

RECURSIVE ParseDigits(_)
ParseDigits(s) ==
  IF Len(s) = 0 THEN 0
  ELSE 10 * ParseDigits(SubSeq(s, 1, Len(s) - 1)) + DigitValue(SubSeq(s, Len(s), Len(s)))

\* pd.to_numeric(..., errors="coerce") on one cell: a number stays, a string
\* of decimal digits is read as that number, any other cell becomes NaN.
\* (The sheets below hold no signed, fractional or padded numerals.)
to_numeric(cell) ==
  IF cell.t = "int" THEN Num(cell.n)
  ELSE IF cell.t = "str" /\ Len(cell.s) > 0
          /\ \A k \in 1..Len(cell.s) : DigitValue(SubSeq(cell.s, k, k)) >= 0
       THEN Num(ParseDigits(cell.s))
  ELSE NaN

\* The columns load_data coerces (line 50).
NumericCols ==
  {"Clicks", "CTR", "Impr.", "Cost", "Installs", "Installs per (1000) impressions"}

\* dropna(subset=...) of line 53 without 'Installs'.
DropSubset_NoInstalls == {"Clicks", "CTR", "Impr.", "Cost"}

\* The columns whose NaN drops the row (line 53).
DropSubset == {"Clicks", "CTR", "Impr.", "Cost", "Installs"}

\* Series.replace(0, 1) left out: the value unchanged.
replace_Nothing(v, old, new) == v

\* Series.replace(old, new) on one value (line 55).
replace(v, old, new) == IF v.k = "num" /\ v = Num(old) THEN Num(new) ELSE v

\* pd.read_excel: the rows, labelled 0, 1, ... by the frame's index.
read_excel(sheet) == [j \in 1..Len(sheet) |-> sheet[j] @@ ("index" :> j - 1)]

\* The frame's column labels.
Columns(frame) == IF frame = <<>> THEN {} ELSE DOMAIN frame[1] \ {"index"}

\* DataFrame.dropna(subset=cols)
dropna(frame, cols) ==
  LET Keep(r) == \A c \in cols : r[c].k # "nan" IN SelectSeq(frame, Keep)

\* load_data (lines 48-56) on the sheet read from videos.xlsx.
load_data(sheet) ==
  LET read == read_excel(sheet)
      coerced == [j \in 1..Len(read) |->
                    [c \in DOMAIN read[j] |->
                       IF c \in NumericCols THEN to_numeric(read[j][c])
                       ELSE read[j][c]]]
      kept == dropna(coerced, DropSubset)
  IN IF kept # <<>> /\ "Cost" \in Columns(kept) /\ "Installs" \in Columns(kept)
     THEN [j \in 1..Len(kept) |->
             kept[j] @@ ("CPI" :> Div(kept[j]["Cost"], replace(kept[j]["Installs"], 0, 1)))]
     ELSE kept

(***************************************************************************)
(* The sheets the model is run on.                                         *)
(***************************************************************************)
SheetRow(asset, type, perf, clicks, ctr, impr, cost, installs) ==
  ("Asset" :> asset) @@ ("Asset type" :> type) @@ ("Performance" :> perf)
  @@ ("Clicks" :> clicks) @@ ("CTR" :> ctr) @@ ("Impr." :> impr)
  @@ ("Cost" :> cost) @@ ("Installs" :> installs)

DigitChar(n) ==
  CASE n = 0 -> "0" [] n = 1 -> "1" [] n = 2 -> "2" [] n = 3 -> "3" [] n = 4 -> "4"
    [] n = 5 -> "5" [] n = 6 -> "6" [] n = 7 -> "7" [] n = 8 -> "8" [] OTHER -> "9"

RECURSIVE Numeral(_)
Numeral(n) == IF n < 10 THEN DigitChar(n) ELSE Numeral(n \div 10) \o DigitChar(n % 10)

\* What an unusable metric cell holds.
BadCell(j) == IF j % 8 = 0 THEN Blank ELSE StrCell("n/a")

\* Row j of the long sheet: text assets of two types and two tiers; every
\* fourth row has one unusable metric, every sixth row keeps Clicks as text.
\* Rows 1 and 2 have no installs; rows 1 and 7 have the same CPI (53).
LongRow(j) ==
  LET bad == IF j % 4 = 0 THEN (j \div 4) % 5 ELSE -1
  IN SheetRow("Banner text",
              IF j % 2 = 1 THEN "Text" ELSE "Headline",
              IF j % 3 = 0 THEN "Low" ELSE "Best",
              IF bad = 0 THEN BadCell(j)
              ELSE IF j % 6 = 5 THEN StrCell(Numeral(j)) ELSE IntCell(j),
              IF bad = 1 THEN BadCell(j) ELSE IntCell((7 * j) % 29),
              IF bad = 2 THEN BadCell(j) ELSE IntCell(100 + ((11 * j) % 31)),
              IF bad = 3 THEN BadCell(j)
              ELSE IntCell(IF j = 1 THEN 53 ELSE IF j = 2 THEN 10 ELSE (j - 2) * (60 - j)),
              IF bad = 4 THEN BadCell(j) ELSE IntCell(IF j <= 2 THEN 0 ELSE j - 2))

LongSheet(n) == [j \in 1..n |-> LongRow(j)]

\* A row of a sheet that also has the optional rate column.
RatedRow(row, rate) == row @@ ("Installs per (1000) impressions" :> rate)

\* A video link, an image link and text assets, one type each; the third row
\* has an unusable Impr. cell.
SheetKinds ==
  << RatedRow(SheetRow("https://youtu.be/xyz", "Video", "Best",
                       IntCell(40), IntCell(2), IntCell(900), IntCell(12), IntCell(8)),
              IntCell(4)),
     RatedRow(SheetRow("https://example.com/pic.jpg", "Image", "Low",
                       StrCell("15"), IntCell(1), IntCell(700), IntCell(9), IntCell(0)),
              StrCell("-")),
     RatedRow(SheetRow("Banner text", "Text", "Best",
                       IntCell(15), IntCell(3), StrCell("n/a"), IntCell(5), IntCell(1)),
              Blank),
     RatedRow(SheetRow("Banner text", "Text", "Best",
                       IntCell(15), IntCell(2), IntCell(300), StrCell("6"), IntCell(3)),
              IntCell(10)) >>

\* References that begin with "http" without being URLs, and a watch link;
\* the three rows tie on Clicks and Impr., two of them on Cost and on CPI.
SheetRefs ==
  << SheetRow("https is safer - see youtube.com", "Text", "Best",
              IntCell(5), IntCell(1), IntCell(50), IntCell(6), IntCell(0)),
     SheetRow("httpx://cdn.example/pic", "Text", "Best",
              IntCell(5), IntCell(2), IntCell(50), IntCell(6), IntCell(2)),
     SheetRow("https://www.youtube.com/watch?v=abc", "Text", "Best",
              IntCell(5), IntCell(2), IntCell(50), IntCell(12), IntCell(2)) >>

Sheets ==
  {SheetKinds, SheetRefs} \cup {LongSheet(n) : n \in {0, MaxRows \div 2, MaxRows}}

(***************************************************************************)
(* Filter and sort (lines 81-94).                                          *)
(***************************************************************************)
\* Series.unique(): the distinct values of a column.
unique(frame, col) == {frame[j][col] : j \in 1..Len(frame)}

\* The options of the 'Sort By' selectbox (line 85), the first the default.
SortFields == {"None", "Clicks", "Impr.", "CTR", "Cost", "Installs", "CPI"}

\* The options of the 'Order' radio (line 86), the first the default.
Orders == {"High to Low", "Low to High"}

\* The boolean mask of line 89 with | in place of &.
isin_mask_Either(frame, assets, perf) ==
  LET Keep(r) == r["Asset type"] \in assets \/ r["Performance"] \in perf
  IN SelectSeq(frame, Keep)

\* df[df['Asset type'].isin(assets) & df['Performance'].isin(perf)] (line 89)
isin_mask(frame, assets, perf) ==
  LET Keep(r) == r["Asset type"] \in assets /\ r["Performance"] \in perf
  IN SelectSeq(frame, Keep)

Reverse(seq) == [j \in 1..Len(seq) |-> seq[Len(seq) + 1 - j]]

\* Insertion of r behind the rows of sorted whose key is not greater.
RECURSIVE Insert(_, _, _)
Insert(sorted, r, by) ==
  IF sorted = <<>> THEN <<r>>
  ELSE IF Less(r[by], sorted[1][by]) THEN <<r>> \o sorted
  ELSE <<sorted[1]>> \o Insert(Tail(sorted), r, by)

\* The rows in ascending key order, rows of equal key in frame order.
RECURSIVE Ascending(_, _)
Ascending(frame, by) ==
  IF frame = <<>> THEN <<>>
  ELSE Insert(Ascending(SubSeq(frame, 1, Len(frame) - 1), by), frame[Len(frame)], by)

\* Every order of the rows of seq.
Orderings(seq) ==
  LET n == Len(seq)
  IN {[j \in 1..n |-> seq[f[j]]] :
        f \in {g \in [1..n -> 1..n] : \A a, b \in 1..n : a # b => g[a] # g[b]}}

\* Every ascending order of an ascending sequence: each run of rows with the
\* same key in any order.
RECURSIVE TieOrders(_, _)
TieOrders(sorted, by) ==
  IF sorted = <<>> THEN {<<>>}
  ELSE LET run == CHOOSE n \in 1..Len(sorted) :
                    /\ \A j \in 1..n : sorted[j][by] = sorted[1][by]
                    /\ n < Len(sorted) => sorted[n + 1][by] # sorted[1][by]
       IN {h \o t : h \in Orderings(SubSeq(sorted, 1, run)),
                    t \in TieOrders(SubSeq(sorted, run + 1, Len(sorted)), by)}

\* sort_values that ignores its ascending argument.
sort_values_Ascending(frame, by, ascending) == TieOrders(Ascending(frame, by), by)

\* DataFrame.sort_values(by=by, ascending=ascending) (line 91) with pandas'
\* default kind='quicksort', which is not stable: the results it may return
\* are the orders of the rows that are sorted on the key, rows of equal key
\* in an order the library build decides.
sort_values(frame, by, ascending) ==
  IF ascending THEN TieOrders(Ascending(frame, by), by)
  ELSE {Reverse(a) : a \in TieOrders(Ascending(frame, by), by)}

(***************************************************************************)
(* Header and summary (lines 97-114).                                      *)
(***************************************************************************)
\* The metrics whose average is shown (lines 103-110).
Metrics == {"Clicks", "Impr.", "Installs", "Cost", "CTR", "CPI"}

RECURSIVE Total(_, _)
Total(frame, col) ==
  IF frame = <<>> THEN Num(0) ELSE Add(frame[1][col], Total(Tail(frame), col))

\* Series.mean(): the sum over the count, NaN for an empty column.
mean(frame, col) == Div(Total(frame, col), Num(Len(frame)))

\* Series.value_counts(): the number of rows per distinct value.
value_counts(frame, col) ==
  [v \in unique(frame, col) |->
     Cardinality({j \in 1..Len(frame) : frame[j][col] = v})]

\* The header and summary taking their averages from the filtered frame.
header_summary_Filtered(full, filtered) ==
  [count |-> Len(filtered),
   avg |-> [c \in Metrics |-> mean(filtered, c)],
   dist |-> value_counts(full, "Asset type")]

\* What lines 97-114 show: the number of filtered items, avg(c) = df[c].mean()
\* of each metric and df['Asset type'].value_counts().
header_summary(full, filtered) ==
  [count |-> Len(filtered),
   avg |-> [c \in Metrics |-> mean(full, c)],
   dist |-> value_counts(full, "Asset type")]

(***************************************************************************)
(* Pagination (lines 134-139).                                             *)
(***************************************************************************)
\* total // per_page in place of math.ceil.
math_ceil_Floor(n, d) == n \div d

\* math.ceil(n / d) for n >= 0, d > 0 (line 136)
math_ceil(n, d) == IF n % d = 0 THEN n \div d ELSE n \div d + 1

\* st.number_input('Page', lo, hi, value): the value the widget holds.  A
\* typed number outside lo..hi is refused by the widget, which keeps what it
\* held; a widget shown for the first time, or with other limits, holds
\* its default.
number_input(lo, hi, value, held, typed) ==
  IF typed # Unset /\ typed[1] \in lo..hi THEN typed[1]
  ELSE IF held # Unset /\ held[1] \in lo..hi THEN held[1]
  ELSE value

\* start = page * per_page, the first page skipped.
page_start_NextPage(p) == p * per_page

\* start = (page-1)*per_page (line 138)
page_start(p) == (p - 1) * per_page

\* frame.iloc[start:stop] for 0 <= start: the rows at the 0-based positions
\* start .. stop-1 that exist.
iloc(frame, start, stop) ==
  SubSeq(frame, start + 1, IF stop < Len(frame) THEN stop ELSE Len(frame))

(***************************************************************************)
(* The network, get_youtube_title and is_image_url (lines 58-73).          *)
(***************************************************************************)
\* Whether requests accepts the string as an http(s) URL; for any other
\* string requests.get and requests.head raise before anything is sent.
HasScheme(url) == StartsWith(url, "http://") \/ StartsWith(url, "https://")

NoRequest == [kind |-> "none", status |-> 0, title |-> Unset, content_type |-> ""]
Failure == [kind |-> "error", status |-> 0, title |-> Unset, content_type |-> ""]

\* What requests.get(url, timeout=5) may do: raise (timeout, connection
\* error, invalid URL) or return a response with a status and a body, whose
\* <title> element, if any, BeautifulSoup finds.
GetOutcomes(url) ==
  {Failure} \cup
  (IF HasScheme(url)
   THEN {[kind |-> "response", status |-> 200, title |-> Some(" Launch Trailer - YouTube "),
          content_type |-> "text/html"],
         [kind |-> "response", status |-> 200, title |-> Unset, content_type |-> "text/html"],
         [kind |-> "response", status |-> 404, title |-> Some("404 Not Found"),
          content_type |-> "text/html"],
         [kind |-> "response", status |-> 404, title |-> Unset, content_type |-> "text/html"]}
   ELSE {})

\* What requests.head(url, allow_redirects=True, timeout=5) may do: raise, or
\* return headers with or without a Content-Type.
HeadOutcomes(url) ==
  {Failure} \cup
  (IF HasScheme(url)
   THEN {[kind |-> "response", status |-> 200, title |-> Unset, content_type |-> c] :
           c \in {"image/png", "text/html", ""}}
   ELSE {})

\* The body of get_youtube_title (lines 60-65) on the outcome of its request.
get_youtube_title(url, got) ==
  IF got.kind = "error" THEN LastSegment(url)
  ELSE IF got.title # Unset THEN Strip(Remove(got.title[1], " - YouTube"))
  ELSE LastSegment(url)

\* The body of is_image_url (lines 69-73) on the outcome of its request.
is_image_url(url, got) ==
  IF got.kind = "error" THEN FALSE ELSE Contains(got.content_type, "image")

\* A cache that never holds an entry.
cached_Never(cache, url) == FALSE

\* st.cache_data (lines 58, 67): whether the call's argument has a stored
\* result; the store is per process and entries are never dropped.
cached(cache, url) == url \in DOMAIN cache

\* The number of GET requests made so far for url.
Fetched(url) == IF url \in DOMAIN fetches THEN fetches[url] ELSE 0

(***************************************************************************)
(* The script.                                                             *)
(***************************************************************************)
Init ==
  /\ rawTable \in Sheets
  /\ df = <<>>
  /\ selected_assets = {}
  /\ selected_perf = {}
  /\ sort_by = "None"
  /\ order = "High to Low"
  /\ df_filtered = <<>>
  /\ summary = Unset
  /\ pages = Unset
  /\ page = Unset
  /\ subset = <<>>
  /\ pc = "start"
  /\ card = 1
  /\ cards = <<>>
  /\ title_cache = <<>>
  /\ image_cache = <<>>
  /\ fetches = <<>>
  /\ probed = {}
  /\ title_log = {}
  /\ title_hits = {}
  /\ last_title = Unset

\* One run of the script from line 77 to line 139 with the widgets holding
\* the given values; typed is the page number just typed, if any.  The run
\* ends at st.stop() (line 94) when nothing matches, and goes on to render
\* the cards of the page otherwise.
Script(assets, perf, by, ord, typed) ==
  LET loaded == load_data(rawTable)
      masked == isin_mask(loaded, assets, perf)
  IN \E sorted \in (IF by # "None" THEN sort_values(masked, by, ord = "Low to High")
                    ELSE {masked}) :
       /\ df' = loaded
       /\ selected_assets' = assets
       /\ selected_perf' = perf
       /\ sort_by' = by
       /\ order' = ord
       /\ df_filtered' = sorted
       /\ card' = 1
       /\ cards' = <<>>
       /\ IF sorted = <<>>
          THEN /\ pc' = "stopped"
               /\ summary' = Unset
               /\ pages' = Unset
               /\ page' = Unset
               /\ subset' = <<>>
          ELSE LET total == Len(sorted)
                   n_pages == math_ceil(total, per_page)
                   held == IF pages = Some(n_pages) THEN page ELSE Unset
                   p == IF n_pages > 1 THEN number_input(1, n_pages, 1, held, typed) ELSE 1
                   start == page_start(p)
               IN /\ pc' = "render"
                  /\ summary' = Some(header_summary(loaded, sorted))
                  /\ pages' = Some(n_pages)
                  /\ page' = Some(p)
                  /\ subset' = iloc(sorted, start, start + per_page)
       /\ UNCHANGED <<rawTable, title_cache, image_cache, fetches, probed,
                      title_log, title_hits, last_title>>

\* The first run: every widget holds its default.
Start ==
  /\ pc = "start"
  /\ LET loaded == load_data(rawTable)
     IN Script(unique(loaded, "Asset type"), unique(loaded, "Performance"),
               "None", "High to Low", Unset)

Idle == pc \in {"done", "stopped"}

\* The user changes the 'Asset Type' multiselect (line 82).
SelectAssets ==
  /\ Idle
  /\ \E chosen \in SUBSET unique(df, "Asset type") :
       /\ chosen # selected_assets
       /\ Script(chosen, selected_perf, sort_by, order, Unset)

\* The user changes the 'Performance' multiselect (line 84).
SelectPerformance ==
  /\ Idle
  /\ \E chosen \in SUBSET unique(df, "Performance") :
       /\ chosen # selected_perf
       /\ Script(selected_assets, chosen, sort_by, order, Unset)

\* The user changes the 'Sort By' selectbox (line 85).
SelectSortBy ==
  /\ Idle
  /\ \E by \in SortFields \ {sort_by} :
       Script(selected_assets, selected_perf, by, order, Unset)

\* The user changes the 'Order' radio (line 86).
SelectOrder ==
  /\ Idle
  /\ \E ord \in Orders \ {order} :
       Script(selected_assets, selected_perf, sort_by, ord, Unset)

\* The user types a page number into the 'Page' input (line 137), which is
\* shown only when there are several pages.
SelectPage ==
  /\ pc = "done"
  /\ pages # Unset
  /\ pages[1] > 1
  /\ \E typed \in 0..(pages[1] + 1) :
       Script(selected_assets, selected_perf, sort_by, order, Some(typed))

\* One pass of the loop body of lines 145-173: the card of row subset[card].
RenderCard ==
  /\ pc = "render"
  /\ LET row == subset[card]
         url == row["Asset"]
         http == StartsWith(url, "http")
         is_yt == http /\ (Contains(url, "youtube.com") \/ Contains(url, "youtu.be"))
         probe == http /\ ~is_yt
         fetch == is_yt /\ ~cached(title_cache, url)
         head == probe /\ ~cached(image_cache, url)
     IN \E got \in (IF fetch THEN GetOutcomes(url) ELSE {NoRequest}),
           seen \in (IF head THEN HeadOutcomes(url) ELSE {NoRequest}) :
          LET is_img == probe /\ (IF head THEN is_image_url(url, seen) ELSE image_cache[url])
              title == IF fetch THEN get_youtube_title(url, got)
                       ELSE IF is_yt THEN title_cache[url] ELSE ""
              display_title == IF is_yt THEN title
                               ELSE IF is_img THEN "" ELSE row["Asset"]
          IN /\ cards' = Append(cards, [ref |-> row["Asset"], index |-> row["index"],
                                        is_yt |-> is_yt, is_img |-> is_img,
                                        display_title |-> display_title])
             /\ image_cache' = IF head THEN (url :> is_img) @@ image_cache ELSE image_cache
             /\ probed' = IF head THEN probed \cup {url} ELSE probed
             /\ title_cache' = IF fetch THEN (url :> title) @@ title_cache ELSE title_cache
             /\ fetches' = IF fetch THEN (url :> Fetched(url) + 1) @@ fetches ELSE fetches
             /\ last_title' = IF fetch THEN Some([url |-> url, got |-> got, title |-> title])
                              ELSE last_title
             /\ title_log' = IF is_yt THEN title_log \cup {<<url, title>>} ELSE title_log
             /\ title_hits' = IF is_yt /\ ~fetch THEN title_hits \cup {url} ELSE title_hits
  /\ card' = card + 1
  /\ pc' = IF card = Len(subset) THEN "done" ELSE "render"
  /\ UNCHANGED <<rawTable, df, selected_assets, selected_perf, sort_by, order,
                 df_filtered, summary, pages, page, subset>>

Next ==
  \/ Start
  \/ SelectAssets
  \/ SelectPerformance
  \/ SelectSortBy
  \/ SelectOrder
  \/ SelectPage
  \/ RenderCard

Spec == Init /\ [][Next]_vars

(***************************************************************************)
(* Properties.                                                             *)
(***************************************************************************)
Rows(frame) == {frame[j] : j \in 1..Len(frame)}

\* Whether a sheet row's five required metrics all parse as numbers.
AllFiveParse(row) ==
  \A c \in {"Clicks", "CTR", "Impr.", "Cost", "Installs"} : to_numeric(row[c]).k # "nan"

\* C1: once load_data has run, the loaded frame holds exactly the sheet rows
\* whose Clicks, CTR, Impr., Cost and Installs all parse as numbers, and the
\* filtered frame, the page and the rendered cards hold loaded rows only.
C1_DiscardedRowsStayOut ==
  pc # "start" =>
    /\ \A j \in 1..Len(rawTable) :
         (\E r \in Rows(df) : r["index"] = j - 1) <=> AllFiveParse(rawTable[j])
    /\ Rows(df_filtered) \subseteq Rows(df)
    /\ Rows(subset) \subseteq Rows(df)
    /\ \A m \in 1..Len(cards) : \E r \in Rows(df) : r["index"] = cards[m].index

\* C1 witness: a sheet with unusable rows, loaded, filtered, sorted, its
\* second page rendered.
C1_Witness ==
  /\ pc = "done"
  /\ \E j \in 1..Len(rawTable) : ~AllFiveParse(rawTable[j])
  /\ sort_by # "None"
  /\ Len(df_filtered) < Len(df)
  /\ page = Some(2)

\* C2: every loaded row's CPI is a finite number, equal to Cost when
\* Installs is 0 and to Cost / Installs when Installs is positive.
C2_CostPerInstall ==
  pc # "start" =>
    \A r \in Rows(df) :
      /\ r["CPI"].k = "num"
      /\ r["Installs"] = Num(0) => r["CPI"] = r["Cost"]
      /\ r["Installs"].n > 0 =>
           r["CPI"].n * r["Installs"].n * r["Cost"].d
             = r["Cost"].n * r["Installs"].d * r["CPI"].d

\* C2 witness: a loaded frame with a costly row without installs and a row
\* whose CPI is a proper fraction.
C2_Witness ==
  /\ pc # "start"
  /\ \E r \in Rows(df) : r["Installs"] = Num(0) /\ r["Cost"].n > 0
  /\ \E r \in Rows(df) : r["Installs"].n > 1 /\ r["CPI"].d > 1

\* C3: with sort field 'None' the filtered frame is the subsequence of the
\* loaded rows whose asset type and performance are both selected, in load
\* order.
C3_FilterKeepsLoadOrder ==
  (pc # "start" /\ sort_by = "None") =>
    /\ \A r \in Rows(df) :
         r \in Rows(df_filtered)
           <=> (r["Asset type"] \in selected_assets /\ r["Performance"] \in selected_perf)
    /\ Rows(df_filtered) \subseteq Rows(df)
    /\ \A m, n \in 1..Len(df_filtered) :
         m < n => df_filtered[m]["index"] < df_filtered[n]["index"]

\* C3 witness: both selections narrowed, several but not all rows shown.
C3_Witness ==
  /\ pc = "done" /\ sort_by = "None"
  /\ selected_assets # unique(df, "Asset type")
  /\ selected_perf # unique(df, "Performance")
  /\ Len(df_filtered) > 1 /\ Len(df_filtered) < Len(df)

Keys(frame, by) == [j \in 1..Len(frame) |-> frame[j][by]]

\* What sorting the current selection the other way round may return.
OtherDirection ==
  sort_values(isin_mask(df, selected_assets, selected_perf), sort_by,
              ~(order = "Low to High"))

\* C4 as stated: the sorted frame is the exact reverse of the frame sorted
\* by the same field in the other direction, ties included.
C4_Original ==
  (pc # "start" /\ sort_by # "None") =>
    \A other \in OtherDirection : df_filtered = Reverse(other)

\* C4 amended: the field's values in one direction are the exact reverse of
\* its values in the other direction, and the records are in exact reverse
\* order when no two of them tie on the field.
C4_Amended ==
  (pc # "start" /\ sort_by # "None") =>
    \A other \in OtherDirection :
      /\ Keys(df_filtered, sort_by) = Reverse(Keys(other, sort_by))
      /\ (\A m, n \in 1..Len(other) : m # n => other[m][sort_by] # other[n][sort_by])
           => df_filtered = Reverse(other)

\* C4 witness: a sorted frame with a tie and with different values.
C4_Witness ==
  /\ pc = "done" /\ sort_by # "None"
  /\ \E m, n \in 1..Len(df_filtered) :
       m # n /\ df_filtered[m][sort_by] = df_filtered[n][sort_by]
  /\ \E m, n \in 1..Len(df_filtered) : df_filtered[m][sort_by] # df_filtered[n][sort_by]

\* The least n with n * 10 >= total.
PagesFor(total) == CHOOSE n \in 0..total : n * 10 >= total /\ (n - 1) * 10 < total

\* C5 as stated: after any run the number of pages is
\* max(1, ceil(totalCount / 10)), so 1 when nothing matches.
C5_Original ==
  pc # "start" =>
    pages = Some(IF PagesFor(Len(df_filtered)) < 1 THEN 1 ELSE PagesFor(Len(df_filtered)))

\* C5 amended: a run that reaches pagination has at least one record and
\* ceil(totalCount / 10) >= 1 pages; a run whose filter matches nothing stops
\* before pagination and has no page count.
C5_Amended ==
  /\ pc \in {"render", "done"} =>
       /\ Len(df_filtered) > 0
       /\ pages = Some(PagesFor(Len(df_filtered)))
       /\ pages[1] >= 1
  /\ pc = "stopped" => (Len(df_filtered) = 0 /\ pages = Unset)
  /\ (pc # "start" /\ Len(df_filtered) = 0) => pc = "stopped"

\* C5 witness: a count that is no multiple of 10, on several pages.
C5_Witness ==
  /\ pc = "done"
  /\ Len(df_filtered) % 10 # 0
  /\ pages # Unset /\ pages[1] > 2

\* The records page q shows.
PageView(q) == iloc(df_filtered, page_start(q), page_start(q) + per_page)

\* C6: the page shown lies in 1..pages and holds the records at positions
\* [(p-1)*10, p*10) of the sorted frame in order; every page but the last
\* holds 10 records, the last 1 to 10, and each record is on exactly one page.
C6_PageSlice ==
  pc \in {"render", "done"} =>
    LET total == Len(df_filtered)
        p == page[1]
        last == IF p * 10 < total THEN p * 10 ELSE total
    IN /\ p \in 1..pages[1]
       /\ subset = [m \in 1..(last - (p - 1) * 10) |-> df_filtered[(p - 1) * 10 + m]]
       /\ p < pages[1] => Len(subset) = 10
       /\ p = pages[1] => Len(subset) \in 1..10
       /\ \A k \in 1..total :
            Cardinality({q \in 1..pages[1] : df_filtered[k] \in Rows(PageView(q))}) = 1

\* C6 witness: the short last page of three.
C6_Witness ==
  /\ pc = "done"
  /\ pages = Some(3) /\ page = Some(3)
  /\ Len(subset) < 10

\* C7: for each URL at most one GET is made, and every call of
\* get_youtube_title with it returns the same string.
C7_TitleFetchedOnce ==
  /\ \A u \in DOMAIN fetches : fetches[u] <= 1
  /\ \A a, b \in title_log : a[1] = b[1] => a[2] = b[2]

\* C7 witness: one URL whose fetch fell back and one whose fetch found a
\* title, both asked for again and answered from the cache.
C7_Witness ==
  /\ \E u \in title_hits : Fetched(u) = 1 /\ title_cache[u] = LastSegment(u)
  /\ \E u \in title_hits : Fetched(u) = 1 /\ title_cache[u] # LastSegment(u)

\* C8 as stated: when the request fails (an exception, a status outside
\* 2xx) or the page has no title element, get_youtube_title returns what
\* follows the URL's last '/'.
C8_Original ==
  last_title # Unset =>
    LET call == last_title[1]
        failed == \/ call.got.kind = "error"
                  \/ call.got.status \notin 200..299
                  \/ call.got.title = Unset
    IN failed => call.title = LastSegment(call.url)

VideoMarker(ref) == Contains(ref, "youtube.com") \/ Contains(ref, "youtu.be")

\* C9 as stated: a card is a video exactly when its reference starts with an
\* http(s) scheme and holds a video-host marker; otherwise an image only
\* for a reference with an http(s) scheme, with an empty title; otherwise
\* text titled by the reference; and no image probe is made for a video
\* reference or for a reference without an http(s) scheme.
C9_Original ==
  /\ \A m \in 1..Len(cards) :
       LET c == cards[m]
       IN /\ c.is_yt <=> (HasScheme(c.ref) /\ VideoMarker(c.ref))
          /\ (~c.is_yt /\ c.is_img) => (HasScheme(c.ref) /\ c.display_title = "")
          /\ (~c.is_yt /\ ~c.is_img) => c.display_title = c.ref
  /\ \A u \in probed : HasScheme(u) /\ ~VideoMarker(u)

====
